---- MODULE Spec2Model ----
(***************************************************************************)
(* A model of the premium ledger, the premium code registry and the        *)
(* calendar gate of src/server.py.                                         *)
(*                                                                         *)
(* The persistent store (MongoDB collections users and premium_codes) is   *)
(* the shared state.  Every request handler is a coroutine: it runs        *)
(* atomically between two awaits, and every await is one store operation.  *)
(* A handler is therefore a chain of actions, one per store operation;     *)
(* the code that follows an await up to the next one belongs to the same   *)
(* action.  Requests run in the slots of Procs and interleave freely.      *)
(*                                                                         *)
(* Time is counted in ticks of half a day, so that the truncation of a     *)
(* timestamp to its day, and of a duration to whole days, is not the       *)
(* identity.                                                               *)
(***************************************************************************)
EXTENDS Integers, Sequences, FiniteSets, TLC

----------------------------------------------------------------------------
(* Bounds of the model *)

\* users the store may hold
MaxUsers == 2
\* codes the registry may hold
MaxCodes == 2
\* clock advances in one behaviour
MaxAdvances == 1
\* requests started in one behaviour of the interleaved specification
MaxReqs == 2
\* requests started in one behaviour of the sequential specification
MaxSeqReqs == 3
\* latest tick of an activation the calendar's specification draws
MaxCalTick == 3
\* entries the daily entry store may hold
MaxEntries == 2
\* requests started in one behaviour of the daily entries' specification
MaxEntryReqs == 2
\* requests started in one behaviour of the payments' specification
MaxHookReqs == 2
\* answers of one quiz submission
MaxAnswers == 3
\* requests started in one behaviour of the code generation's specification
MaxAdminReqs == 2
\* requests started in one behaviour of the specification of the status
\* check racing a grant
MaxRaceReqs == 2
\* requests started in one behaviour of the facial analysis' specification
MaxFacialReqs == 3

----------------------------------------------------------------------------
(* Program constants *)

\* ticks in a day (the unit of the clock)
TicksPerDay == 2
\* timedelta(days=30) of the code and auto grants
PremiumDays == 30
\* timedelta(days=7) of the webhook and payment-validation grants, and the
\* default trial of the calendar
TrialDays == 7
\* range(-30, days_to_check) of the calendar
WindowBack == 30
DaysToCheck == 60
\* range(-30, 30) of the calendar of a never-activated user
DaysNotActivated == 30
\* items of the checklist of a new entry
ChecklistSize == 5

Days(n) == n * TicksPerDay

----------------------------------------------------------------------------
(* Values *)

\* the request slots: two requests may be in flight together
Procs == {"r1", "r2"}

\* None of a timestamp, of a user id, of a string
NoTime == -1
NoUser == 0
None == "none"

\* email addresses as the clients send them; "" is a missing one
Emails == {"a@x.com", "A@x.com"}
\* str.lower() (and strip()) of an email
Lower(e) == IF e = "A@x.com" THEN "a@x.com" ELSE e

\* the k-th code uuid4 mints: "BELUX" + 8 upper-case hex digits
CodeStr(k) == <<"BELUX", k>>
\* the same code typed in lower case
CodeLower(k) == <<"belux", k>>
\* no code: the empty string of a request, the None of a user document
NoCode == <<"", 0>>
\* str.upper() (and strip()) of a code; "" stays ""
Upper(c) == IF c = NoCode THEN NoCode ELSE <<"BELUX", c[2]>>
\* the codes a client may send
RawCodes == {NoCode} \cup {CodeStr(k) : k \in 1..MaxCodes}
                 \cup {CodeLower(k) : k \in 1..MaxCodes}

\* the payment ids of the gateway
PaymentIds == {"p1"}

\* the jumps of the clock: half a day, 30.5 days
Jumps == {1, Days(PremiumDays) + 1}

----------------------------------------------------------------------------
VARIABLES
    users,      \* db.users: the documents in insertion order
    codes,      \* db.premium_codes: the documents in insertion order
    entries,    \* db.daily_entries: the documents in insertion order
    quiz_results,             \* db.quiz_results
    facial_analyses,          \* db.facial_analyses
    product_recommendations,  \* db.product_recommendations
    env,        \* the environment: ADMIN_PASSWORD, MERCADO_PAGO_ACCESS_TOKEN
    now,        \* datetime.utcnow()
    advances,   \* clock advances so far
    budget,     \* requests that may still start
    req,        \* per slot: the request in flight (pc, inputs, locals)
    res         \* per slot: the response of the last request

vars == <<users, codes, entries, quiz_results, facial_analyses,
          product_recommendations, env, now, advances, budget, req, res>>

\* the stores of the quiz and of the facial analysis
analysis_stores == <<quiz_results, facial_analyses, product_recommendations>>

----------------------------------------------------------------------------
(* Documents *)

\* User(full_name=..., email=...): a new user document with id `id`
NewUser(id, email) ==
    [id |-> id, email |-> email, is_premium |-> FALSE, is_subscriber |-> FALSE,
     premium_activated_at |-> NoTime, subscription_started_at |-> NoTime,
     trial_ends_at |-> NoTime, premium_code |-> NoCode,
     premium_code_expires_at |-> NoTime, last_payment_id |-> None]

\* the document generate_premium_code inserts
NewCode(code, t) ==
    [code |-> code, created_at |-> t, used |-> FALSE, used_by |-> NoUser,
     used_at |-> NoTime]

\* the document generate_and_activate_code inserts
NewUsedCode(code, uid, t) ==
    [code |-> code, created_at |-> t, used |-> TRUE, used_by |-> uid,
     used_at |-> t]

----------------------------------------------------------------------------
(* Store operations *)

\* find_one({"email": e}): the index of the first match, 0 when none
FindByEmail(e) ==
    IF \E i \in 1..Len(users) : users[i].email = e
    THEN CHOOSE i \in 1..Len(users) :
            /\ users[i].email = e
            /\ \A j \in 1..(i - 1) : users[j].email # e
    ELSE 0

\* find_one({"id": id}) on users
FindById(id) ==
    IF \E i \in 1..Len(users) : users[i].id = id
    THEN CHOOSE i \in 1..Len(users) :
            /\ users[i].id = id
            /\ \A j \in 1..(i - 1) : users[j].id # id
    ELSE 0

\* find_one({"code": c}) on premium_codes
FindCode(c) ==
    IF \E i \in 1..Len(codes) : codes[i].code = c
    THEN CHOOSE i \in 1..Len(codes) :
            /\ codes[i].code = c
            /\ \A j \in 1..(i - 1) : codes[j].code # c
    ELSE 0

\* {"$set": upd} applied to a document
SetFields(doc, upd) == upd @@ doc

\* update_one on users of the document at index i (no match: nothing)
UpdateUserAt(i, upd) ==
    IF i = 0 THEN users ELSE [users EXCEPT ![i] = SetFields(@, upd)]

\* update_one on premium_codes of the document at index i
UpdateCodeAt(i, upd) ==
    IF i = 0 THEN codes ELSE [codes EXCEPT ![i] = SetFields(@, upd)]

\* uuid4 of a new user: an id no document holds
FreshUserId == Len(users) + 1

\* f"BELUX{uuid.uuid4().hex[:8].upper()}": a code no document holds
FreshCode == CodeStr(Len(codes) + 1)

----------------------------------------------------------------------------
(* Requests *)

Idle == [pc |-> "idle"]

\* no response yet
NoResp == [op |-> None]

InFlight(p) == req[p].pc \notin {"idle"}

\* the requests in flight that are about to insert a user
Inserting(p) ==
    \/ req[p].pc \in {"reg_insert", "ga_insert_user"}
    \/ req[p].pc = "auto_write" /\ ~req[p].found

\* the requests in flight that are about to insert a code
Minting(p) == req[p].pc \in {"ga_insert_user", "ga_insert_code"}

\* a request that may insert a user starts only while the store has room
RoomForUser ==
    Len(users) + Cardinality({p \in Procs : Inserting(p)}) < MaxUsers
RoomForCode ==
    Len(codes) + Cardinality({p \in Procs : Minting(p)}) < MaxCodes

\* a request arrives at slot p
CanStart(p) ==
    /\ req[p].pc = "idle"
    /\ budget > 0
    \* which idle slot serves a request is immaterial: the first one does
    /\ (\A q \in Procs : req[q].pc = "idle") => p = "r1"

\* the request of slot p ends with response r
Finish(p, r) ==
    /\ req' = [req EXCEPT ![p] = Idle]
    /\ res' = [res EXCEPT ![p] = r]

\* the request of slot p goes on at r
Goto(p, r) ==
    /\ req' = [req EXCEPT ![p] = r]
    /\ res' = [res EXCEPT ![p] = NoResp]

----------------------------------------------------------------------------
(* POST /users/register *)

\* find_one by email; an existing user is returned as it is
RegisterFind(p, email) ==
    /\ CanStart(p)
    /\ FindByEmail(email) # 0 \/ RoomForUser
    /\ budget' = budget - 1
    /\ IF FindByEmail(email) # 0
       THEN Finish(p, [op |-> "register", email |-> email, status |-> 200,
                       created |-> FALSE,
                       user |-> users[FindByEmail(email)]])
       ELSE Goto(p, [pc |-> "reg_insert", op |-> "register", email |-> email])
    /\ UNCHANGED <<analysis_stores, entries, users, codes, env, now, advances>>

\* RegisterInsert with the premium of activate_premium_auto
RegisterInsert_Premium(p) ==
    /\ req[p].pc = "reg_insert"
    /\ users' = Append(users, SetFields(NewUser(FreshUserId, req[p].email),
                                        [is_premium |-> TRUE,
                                         premium_activated_at |-> now,
                                         trial_ends_at |->
                                             now + Days(PremiumDays)]))
    /\ Finish(p, [op |-> "register", email |-> req[p].email, status |-> 200,
                  created |-> TRUE,
                  user |-> NewUser(FreshUserId, req[p].email)])
    /\ UNCHANGED <<analysis_stores, entries, codes, env, now, advances, budget>>

\* insert_one of a user without premium
RegisterInsert(p) ==
    /\ req[p].pc = "reg_insert"
    /\ users' = Append(users, NewUser(FreshUserId, req[p].email))
    /\ Finish(p, [op |-> "register", email |-> req[p].email, status |-> 200,
                  created |-> TRUE,
                  user |-> NewUser(FreshUserId, req[p].email)])
    /\ UNCHANGED <<analysis_stores, entries, codes, env, now, advances, budget>>

----------------------------------------------------------------------------
(* POST /users/activate-premium-auto *)

\* AutoGrant with the 7-day expiry of the webhook's grant
AutoGrant_SevenDays(t) ==
    [is_premium |-> TRUE, premium_activated_at |-> t,
     trial_ends_at |-> t + Days(TrialDays)]

\* the $set of a 30-day grant without a code, made at time t
AutoGrant(t) ==
    [is_premium |-> TRUE, premium_activated_at |-> t,
     trial_ends_at |-> t + Days(PremiumDays)]

\* validation, then find_one by the lower-cased email; now is read after it
AutoFind(p, raw, hasName) ==
    /\ CanStart(p)
    /\ FindByEmail(Lower(raw)) # 0 \/ RoomForUser
    /\ budget' = budget - 1
    /\ IF Lower(raw) = "" \/ ~hasName
       THEN Finish(p, [op |-> "auto", email |-> Lower(raw), status |-> 400])
       ELSE Goto(p, [pc |-> "auto_write", op |-> "auto", email |-> Lower(raw),
                     found |-> FindByEmail(Lower(raw)) # 0, t |-> now])
    /\ UNCHANGED <<analysis_stores, entries, users, codes, env, now, advances>>

\* update_one by email of the user found, or insert_one of a premium user.
\* The find_one that follows only fills the response's "user".
AutoWrite(p) ==
    /\ req[p].pc = "auto_write"
    /\ users' = IF req[p].found
                THEN UpdateUserAt(FindByEmail(req[p].email), AutoGrant(req[p].t))
                ELSE Append(users, SetFields(NewUser(FreshUserId, req[p].email),
                                             AutoGrant(req[p].t)))
    /\ Finish(p, [op |-> "auto", email |-> req[p].email, status |-> 200,
                  existed |-> req[p].found, t |-> req[p].t,
                  expires_at |-> req[p].t + Days(PremiumDays),
                  days_remaining |-> PremiumDays])
    /\ UNCHANGED <<analysis_stores, entries, codes, env, now, advances, budget>>

----------------------------------------------------------------------------
(* POST /users/{user_id}/activate-premium-code *)

\* the $set of a 30-day grant by code c, made at time t
CodeGrant(c, t) ==
    [is_premium |-> TRUE, premium_activated_at |-> t,
     trial_ends_at |-> t + Days(PremiumDays), premium_code |-> c,
     premium_code_expires_at |-> t + Days(PremiumDays)]

\* the $set that marks a code used
MarkUsed(uid, t) == [used |-> TRUE, used_by |-> uid, used_at |-> t]

\* validation of the code, then find_one of the user
RedeemFindUser(p, uid, raw) ==
    /\ CanStart(p)
    /\ budget' = budget - 1
    /\ IF Upper(raw) = NoCode
       THEN Finish(p, [op |-> "redeem", uid |-> uid, code |-> Upper(raw),
                       status |-> 400, detail |-> "no_code"])
       ELSE IF FindById(uid) = 0
       THEN Finish(p, [op |-> "redeem", uid |-> uid, code |-> Upper(raw),
                       status |-> 404, detail |-> "no_user"])
       ELSE Goto(p, [pc |-> "redeem_find_code", op |-> "redeem", uid |-> uid,
                     code |-> Upper(raw)])
    /\ UNCHANGED <<analysis_stores, entries, users, codes, env, now, advances>>

\* RedeemFindCode without the check of the used flag
RedeemFindCode_IgnoresUsed(p) ==
    /\ req[p].pc = "redeem_find_code"
    /\ IF FindCode(req[p].code) = 0
       THEN Finish(p, [op |-> "redeem", uid |-> req[p].uid,
                       code |-> req[p].code, status |-> 400,
                       detail |-> "invalid_code"])
       ELSE Goto(p, [pc |-> "redeem_user", op |-> "redeem", uid |-> req[p].uid,
                     code |-> req[p].code, t |-> now])
    /\ UNCHANGED <<analysis_stores, entries, users, codes, env, now, advances,
                   budget>>

\* find_one of the code; an absent code and a used one are refused
RedeemFindCode(p) ==
    /\ req[p].pc = "redeem_find_code"
    /\ IF FindCode(req[p].code) = 0
       THEN Finish(p, [op |-> "redeem", uid |-> req[p].uid,
                       code |-> req[p].code, status |-> 400,
                       detail |-> "invalid_code"])
       ELSE IF codes[FindCode(req[p].code)].used
       THEN Finish(p, [op |-> "redeem", uid |-> req[p].uid,
                       code |-> req[p].code, status |-> 400,
                       detail |-> "code_used"])
       ELSE Goto(p, [pc |-> "redeem_user", op |-> "redeem", uid |-> req[p].uid,
                     code |-> req[p].code, t |-> now])
    /\ UNCHANGED <<analysis_stores, entries, users, codes, env, now, advances,
                   budget>>

\* update_one of the user: the grant
RedeemUpdateUser(p) ==
    /\ req[p].pc = "redeem_user"
    /\ users' = UpdateUserAt(FindById(req[p].uid),
                             CodeGrant(req[p].code, req[p].t))
    /\ Goto(p, [req[p] EXCEPT !.pc = "redeem_code"])
    /\ UNCHANGED <<analysis_stores, entries, codes, env, now, advances, budget>>

\* update_one of the code: marked used
RedeemUpdateCode(p) ==
    /\ req[p].pc = "redeem_code"
    /\ codes' = UpdateCodeAt(FindCode(req[p].code),
                             MarkUsed(req[p].uid, req[p].t))
    /\ Finish(p, [op |-> "redeem", uid |-> req[p].uid, code |-> req[p].code,
                  status |-> 200, detail |-> "ok", t |-> req[p].t,
                  expires_at |-> req[p].t + Days(PremiumDays),
                  days_remaining |-> PremiumDays])
    /\ UNCHANGED <<analysis_stores, entries, users, env, now, advances, budget>>

----------------------------------------------------------------------------
(* POST /users/generate-and-activate-code *)

\* validation, then find_one by the lower-cased email
GenActFind(p, raw, hasName) ==
    /\ CanStart(p)
    /\ FindByEmail(Lower(raw)) # 0 \/ RoomForUser
    /\ RoomForCode
    /\ budget' = budget - 1
    /\ IF Lower(raw) = ""
       THEN Finish(p, [op |-> "genact", email |-> Lower(raw), status |-> 400])
       ELSE IF FindByEmail(Lower(raw)) = 0 /\ ~hasName
       THEN Finish(p, [op |-> "genact", email |-> Lower(raw), status |-> 400])
       ELSE IF FindByEmail(Lower(raw)) = 0
       THEN Goto(p, [pc |-> "ga_insert_user", op |-> "genact",
                     email |-> Lower(raw)])
       ELSE Goto(p, [pc |-> "ga_insert_code", op |-> "genact",
                     email |-> Lower(raw),
                     uid |-> users[FindByEmail(Lower(raw))].id])
    /\ UNCHANGED <<analysis_stores, entries, users, codes, env, now, advances>>

\* insert_one of a user without premium
GenActInsertUser(p) ==
    /\ req[p].pc = "ga_insert_user"
    /\ users' = Append(users, NewUser(FreshUserId, req[p].email))
    /\ Goto(p, [pc |-> "ga_insert_code", op |-> "genact",
                email |-> req[p].email, uid |-> FreshUserId])
    /\ UNCHANGED <<analysis_stores, entries, codes, env, now, advances, budget>>

\* insert_one of a fresh code already marked used; now is read after it
GenActInsertCode(p) ==
    /\ req[p].pc = "ga_insert_code"
    /\ codes' = Append(codes, NewUsedCode(FreshCode, req[p].uid, now))
    /\ Goto(p, [pc |-> "ga_update", op |-> "genact", email |-> req[p].email,
                uid |-> req[p].uid, code |-> FreshCode, t |-> now])
    /\ UNCHANGED <<analysis_stores, entries, users, env, now, advances, budget>>

\* update_one by email: the grant.  The find_one that follows only fills
\* the response's "user".
GenActUpdateUser(p) ==
    /\ req[p].pc = "ga_update"
    /\ users' = UpdateUserAt(FindByEmail(req[p].email),
                             CodeGrant(req[p].code, req[p].t))
    /\ Finish(p, [op |-> "genact", email |-> req[p].email, status |-> 200,
                  code |-> req[p].code, t |-> req[p].t,
                  expires_at |-> req[p].t + Days(PremiumDays),
                  days_remaining |-> PremiumDays])
    /\ UNCHANGED <<analysis_stores, entries, codes, env, now, advances, budget>>

----------------------------------------------------------------------------
(* POST /admin/generate-premium-code *)

\* the passwords a client may send; None is a missing one
Passwords == {"secret", "wrong", None}

\* the password check, then insert_one of a fresh unused code
AdminGenerate(p, pw) ==
    /\ CanStart(p)
    /\ RoomForCode
    /\ budget' = budget - 1
    /\ IF pw # env.admin_password
       THEN /\ Finish(p, [op |-> "admin", admin_password |-> pw,
                           status |-> 403])
            /\ UNCHANGED codes
       ELSE /\ codes' = Append(codes, NewCode(FreshCode, now))
            /\ Finish(p, [op |-> "admin", admin_password |-> pw,
                           status |-> 200, code |-> FreshCode])
    /\ UNCHANGED <<analysis_stores, entries, users, env, now, advances>>

----------------------------------------------------------------------------
(* GET /users/{user_id}/check-premium-status *)

\* user.get("premium_code_expires_at") or user.get("trial_ends_at")
ExpiresAt(u) ==
    IF u.premium_code_expires_at # NoTime
    THEN u.premium_code_expires_at
    ELSE u.trial_ends_at

\* DaysRemaining rounding up instead of down
DaysRemaining_RoundsUp(expires, t) ==
    (expires - t + TicksPerDay - 1) \div TicksPerDay

\* (expires_dt - now).days of a timedelta that is not negative
DaysRemaining(expires, t) == (expires - t) \div TicksPerDay

\* now > expires_dt
Expired(expires, t) == t > expires

\* find_one of the user and the decision
CheckFind(p, uid) ==
    /\ CanStart(p)
    /\ budget' = budget - 1
    /\ IF FindById(uid) = 0
       THEN Finish(p, [op |-> "check", uid |-> uid, status |-> 404])
       ELSE LET u == users[FindById(uid)] IN
            IF u.is_premium /\ ExpiresAt(u) # NoTime
            THEN IF Expired(ExpiresAt(u), now)
                 THEN Goto(p, [pc |-> "check_write", op |-> "check",
                               uid |-> uid, expired_at |-> ExpiresAt(u)])
                 ELSE Finish(p, [op |-> "check", uid |-> uid, status |-> 200,
                                 is_premium |-> TRUE, body |-> "active",
                                 expires_at |-> ExpiresAt(u), t |-> now,
                                 days_remaining |->
                                     DaysRemaining(ExpiresAt(u), now)])
            ELSE Finish(p, [op |-> "check", uid |-> uid, status |-> 200,
                            is_premium |-> FALSE, body |-> "no_premium"])
    /\ UNCHANGED <<analysis_stores, entries, users, codes, env, now, advances>>

\* Expire clearing the expiry as well
Expire_ClearsExpiry == [is_premium |-> FALSE, trial_ends_at |-> NoTime]

\* the $set of an expired premium
Expire == [is_premium |-> FALSE]

\* update_one of the user whose premium has expired
CheckWrite(p) ==
    /\ req[p].pc = "check_write"
    /\ users' = UpdateUserAt(FindById(req[p].uid), Expire)
    /\ Finish(p, [op |-> "check", uid |-> req[p].uid, status |-> 200,
                  is_premium |-> FALSE, body |-> "expired",
                  expired_at |-> req[p].expired_at])
    /\ UNCHANGED <<analysis_stores, entries, codes, env, now, advances, budget>>

----------------------------------------------------------------------------
(* POST /subscription/activate *)

\* the $set of a subscription, made at time t
SubscriptionGrant(t) == [is_subscriber |-> TRUE, subscription_started_at |-> t]

\* update_one of the user (no user with that id: nothing is updated)
ActivateSubscription(p, uid) ==
    /\ CanStart(p)
    /\ budget' = budget - 1
    /\ users' = UpdateUserAt(FindById(uid), SubscriptionGrant(now))
    /\ Finish(p, [op |-> "subscribe", uid |-> uid, status |-> 200])
    /\ UNCHANGED <<analysis_stores, entries, codes, env, now, advances>>

----------------------------------------------------------------------------
(* POST /webhook/mercadopago *)

\* WebhookGrant without the expiry
WebhookGrant_NoExpiry(t, pid) ==
    [is_premium |-> TRUE, premium_activated_at |-> t, last_payment_id |-> pid]

\* the $set of the 7-day grant of an approved payment, made at time t
WebhookGrant(t, pid) ==
    [is_premium |-> TRUE, premium_activated_at |-> t,
     trial_ends_at |-> t + Days(TrialDays), last_payment_id |-> pid]

\* the deliveries the gateway may make: an event that is no payment event,
\* a payment event without a payment id, and a payment event whose payment
\* the SDK cannot fetch, reports as pending, reports as approved without an
\* email, or reports as approved for an email
WebhookEvents ==
    {[payment |-> FALSE, pid |-> None, sdk |-> "none", email |-> ""],
     [payment |-> TRUE, pid |-> None, sdk |-> "none", email |-> ""]}
    \cup [payment : {TRUE}, pid : PaymentIds, sdk : {"error", "pending"},
          email : {""}]
    \cup [payment : {TRUE}, pid : PaymentIds, sdk : {"approved"},
          email : Emails \cup {""}]

\* insert_one of the notification (a log no handler reads, not modelled),
\* then the event's filter, the token, the SDK's lookup and the email
WebhookReceive(p, ev) ==
    /\ CanStart(p)
    /\ budget' = budget - 1
    /\ IF ~ev.payment \/ ev.pid = None
       THEN Finish(p, [op |-> "webhook", status |-> 200, body |-> "received"])
       ELSE IF ~env.mp_token
       THEN Finish(p, [op |-> "webhook", status |-> 200, body |-> "no_token"])
       ELSE IF ev.sdk = "error"
       THEN Finish(p, [op |-> "webhook", status |-> 200, body |-> "error"])
       ELSE IF ev.sdk # "approved"
       THEN Finish(p, [op |-> "webhook", status |-> 200, body |-> "status"])
       ELSE IF ev.email = ""
       THEN Finish(p, [op |-> "webhook", status |-> 200, body |-> "no_email"])
       ELSE Goto(p, [pc |-> "wh_find", op |-> "webhook", email |-> ev.email,
                     pid |-> ev.pid])
    /\ UNCHANGED <<analysis_stores, entries, users, codes, env, now, advances>>

\* the insert_one of the notification raises, or the payload's "data" is no
\* object and reading the payment id raises: the except clause answers
WebhookRaises(p) ==
    /\ CanStart(p)
    /\ budget' = budget - 1
    /\ Finish(p, [op |-> "webhook", status |-> 200, body |-> "error"])
    /\ UNCHANGED <<analysis_stores, entries, users, codes, env, now, advances>>

\* WebhookFind registering the payer it does not find
WebhookFind_Creates(p) ==
    /\ req[p].pc = "wh_find"
    /\ IF FindByEmail(req[p].email) = 0
       THEN /\ users' = Append(users, NewUser(FreshUserId, req[p].email))
            /\ Finish(p, [op |-> "webhook", status |-> 200,
                          body |-> "no_user", email |-> req[p].email,
                          pid |-> req[p].pid])
       ELSE /\ users' = users
            /\ Goto(p, [pc |-> "wh_update", op |-> "webhook",
                        email |-> req[p].email, pid |-> req[p].pid,
                        t |-> now])
    /\ UNCHANGED <<analysis_stores, entries, codes, env, now, advances, budget>>

\* find_one by the payment's email; now is read after it
WebhookFind(p) ==
    /\ req[p].pc = "wh_find"
    /\ IF FindByEmail(req[p].email) = 0
       THEN Finish(p, [op |-> "webhook", status |-> 200, body |-> "no_user",
                       email |-> req[p].email, pid |-> req[p].pid])
       ELSE Goto(p, [pc |-> "wh_update", op |-> "webhook",
                     email |-> req[p].email, pid |-> req[p].pid, t |-> now])
    /\ UNCHANGED <<analysis_stores, entries, users, codes, env, now, advances,
                   budget>>

\* update_one by email: the grant
WebhookUpdate(p) ==
    /\ req[p].pc = "wh_update"
    /\ users' = UpdateUserAt(FindByEmail(req[p].email),
                             WebhookGrant(req[p].t, req[p].pid))
    /\ Finish(p, [op |-> "webhook", status |-> 200, body |-> "activated",
                  email |-> req[p].email, pid |-> req[p].pid, t |-> req[p].t])
    /\ UNCHANGED <<analysis_stores, entries, codes, env, now, advances, budget>>

----------------------------------------------------------------------------
(* POST /payment/validate *)

\* the $set of the 7-day grant of a validated payment, made at time t
ValidateGrant(t) ==
    [is_premium |-> TRUE, premium_activated_at |-> t,
     trial_ends_at |-> t + Days(TrialDays)]

\* validation, then find_one by email; now is read after it
ValidateFind(p, email, confirmed) ==
    /\ CanStart(p)
    /\ budget' = budget - 1
    /\ IF email = "" \/ ~confirmed
       THEN Finish(p, [op |-> "validate", email |-> email,
                       confirmed |-> confirmed, status |-> 400])
       ELSE IF FindByEmail(email) = 0
       THEN Finish(p, [op |-> "validate", email |-> email,
                       confirmed |-> confirmed, status |-> 404])
       ELSE Goto(p, [pc |-> "val_update", op |-> "validate", email |-> email,
                     confirmed |-> confirmed, t |-> now])
    /\ UNCHANGED <<analysis_stores, entries, users, codes, env, now, advances>>

\* update_one by email: the grant.  The find_one that follows only fills
\* the response's "user".
ValidateUpdate(p) ==
    /\ req[p].pc = "val_update"
    /\ users' = UpdateUserAt(FindByEmail(req[p].email), ValidateGrant(req[p].t))
    /\ Finish(p, [op |-> "validate", email |-> req[p].email, status |-> 200,
                  t |-> req[p].t])
    /\ UNCHANGED <<analysis_stores, entries, codes, env, now, advances, budget>>

----------------------------------------------------------------------------
(* POST /quiz/submit *)

\* A text is the set of the scorer's keywords that occur in it and whether
\* it is written in capitals; lower() puts it in small letters, and a
\* keyword, which is in small letters, is "in" a text in small letters only.
\* (Keywords are spelled without their accents here.)
LowerText(x) == [x EXCEPT !.caps = FALSE]
Has(x, kw) == ~x.caps /\ kw \in x.words

\* the questions and answers a client may send
QuizWords ==
    {{}, {"brilha"}, {"oleosidade"}, {"ressecamento"}, {"acne"},
     {"ardencia"}, {"sensivel"}, {"manchas"}, {"ardencia", "sensivel"}}
QuizAnswers ==
    {[question |-> [words |-> w, caps |-> c],
      answer |-> [words |-> a, caps |-> c]] :
        w \in QuizWords,
        <<a, c>> \in {<<{}, FALSE>>, <<{"sim"}, FALSE>>, <<{"sim"}, TRUE>>}}
QuizInputs == UNION {[1..n -> QuizAnswers] : n \in 0..MaxAnswers}

\* what one answer adds to the four scores
Points(x) ==
    LET q == LowerText(x.question)
        a == LowerText(x.answer)
    IN  [oily |-> (IF Has(q, "brilha") /\ Has(a, "sim") THEN 2 ELSE 0)
                  + (IF Has(q, "oleosidade") /\ Has(a, "sim") THEN 2 ELSE 0),
         dry |-> IF Has(q, "ressecamento") /\ Has(a, "sim") THEN 2 ELSE 0,
         acne |-> IF Has(q, "acne") /\ Has(a, "sim") THEN 2 ELSE 0,
         sensitive |->
             (IF (Has(q, "ardencia") \/ Has(q, "sensivel")) /\ Has(a, "sim")
              THEN 2 ELSE 0)
             + (IF Has(q, "manchas") /\ Has(a, "sim") THEN 1 ELSE 0)]

\* the four scores after the loop over the answers
RECURSIVE Scores(_)
Scores(answers) ==
    IF answers = << >>
    THEN [oily |-> 0, dry |-> 0, acne |-> 0, sensitive |-> 0]
    ELSE LET rest == Scores(SubSeq(answers, 1, Len(answers) - 1))
             last == Points(answers[Len(answers)])
         IN  [oily |-> rest.oily + last.oily,
              dry |-> rest.dry + last.dry,
              acne |-> rest.acne + last.acne,
              sensitive |-> rest.sensitive + last.sensitive]

\* SkinType with the sensitive skin tested first
SkinType_SensitiveFirst(s) ==
    IF s.sensitive >= 2 THEN "Sensivel"
    ELSE IF s.acne >= 2 THEN "Acneica"
    ELSE IF s.oily >= 3 THEN "Oleosa"
    ELSE IF s.dry >= 2 THEN "Seca"
    ELSE IF s.oily >= 1 /\ s.dry >= 1 THEN "Mista"
    ELSE "Normal"

\* the skin type of the scores
SkinType(s) ==
    IF s.acne >= 2 THEN "Acneica"
    ELSE IF s.sensitive >= 2 THEN "Sensivel"
    ELSE IF s.oily >= 3 THEN "Oleosa"
    ELSE IF s.dry >= 2 THEN "Seca"
    ELSE IF s.oily >= 1 /\ s.dry >= 1 THEN "Mista"
    ELSE "Normal"

\* analyze_quiz: the skin type of a list of answers
AnalyzeQuiz(answers) == SkinType(Scores(answers))

\* the skin type is computed, the result is stored and returned
SubmitQuiz(p, answers) ==
    /\ CanStart(p)
    /\ budget' = budget - 1
    /\ quiz_results' =
          Append(quiz_results, [id |-> Len(quiz_results) + 1,
                                skin_type |-> AnalyzeQuiz(answers)])
    /\ Finish(p, [op |-> "quiz", status |-> 200, answers |-> answers,
                  skin_type |-> AnalyzeQuiz(answers)])
    /\ UNCHANGED <<facial_analyses, product_recommendations, entries, users,
                   codes, env, now, advances>>

----------------------------------------------------------------------------
(* The daily entries: documents and lookups *)

\* Midnight leaving the time of day in place
Midnight_Identity(t) == t

\* replace(hour=0, minute=0, second=0, microsecond=0)
Midnight(t) == t - (t % TicksPerDay)

\* the completed flags of the checklist of a new entry, and of a checklist
\* a client sends with its first item done
DefaultChecklist == [k \in 1..ChecklistSize |-> FALSE]
DoneChecklist == [k \in 1..ChecklistSize |-> k = 1]

\* a photo a client sends, the model's answer to it, and the text stored in
\* place of the answer to a face photo when the model's call raises
Photo == "img"
Analysis == "analysis"
Fallback == "fallback"

\* DailyEntry(user_id, date) with the default checklist
NewEntry(id, uid, date) ==
    [id |-> id, user_id |-> uid, date |-> date,
     face_photo_base64 |-> None, face_analysis |-> None,
     products_photos |-> << >>, products_analysis |-> << >>,
     checklist |-> DefaultChecklist]

\* find_one({"id": entry_id}): the index of the first match, 0 for none
FindEntry(id) ==
    IF \E k \in 1..Len(entries) : entries[k].id = id
    THEN CHOOSE k \in 1..Len(entries) :
            /\ entries[k].id = id
            /\ \A j \in 1..(k - 1) : entries[j].id # id
    ELSE 0

\* find_one({"user_id", "date": {"$gte": date_start, "$lt": date_end}})
FindEntryOfDay(uid, date_start) ==
    LET hit(k) == /\ entries[k].user_id = uid
                  /\ entries[k].date >= date_start
                  /\ entries[k].date < date_start + Days(1)
    IN  IF \E k \in 1..Len(entries) : hit(k)
        THEN CHOOSE k \in 1..Len(entries) :
                hit(k) /\ \A j \in 1..(k - 1) : ~hit(j)
        ELSE 0

\* update_one({"id": ...}, {"$set": upd}) on the entry at index i
UpdateEntryAt(i, upd) ==
    IF i = 0 THEN entries
    ELSE [entries EXCEPT ![i] = SetFields(entries[i], upd)]

FreshEntryId == Len(entries) + 1

\* a request that may insert an entry starts only while the store has room
RoomForEntry ==
    Len(entries) + Cardinality({p \in Procs : req[p].pc = "entry_insert"})
        < MaxEntries

----------------------------------------------------------------------------
(* POST /daily-entries/create *)

\* the dates a client may send: none, or a time of the first day
EntryDates == {NoTime, 1}

\* find_one of the user's entry of the day; an existing one is returned
CreateDailyEntryFind(p, uid, date) ==
    LET date_start == Midnight(IF date = NoTime THEN now ELSE date)
        k == FindEntryOfDay(uid, date_start)
    IN
    /\ CanStart(p)
    /\ k # 0 \/ RoomForEntry
    /\ budget' = budget - 1
    /\ IF k # 0
       THEN Finish(p, [op |-> "entry", uid |-> uid, status |-> 200,
                       created |-> FALSE, entry |-> entries[k]])
       ELSE Goto(p, [pc |-> "entry_insert", op |-> "entry", uid |-> uid,
                     date_start |-> date_start])
    /\ UNCHANGED <<analysis_stores, entries, users, codes, env, now, advances>>

\* insert_one of the new entry
CreateDailyEntryInsert(p) ==
    LET new_entry == NewEntry(FreshEntryId, req[p].uid, req[p].date_start) IN
    /\ req[p].pc = "entry_insert"
    /\ entries' = Append(entries, new_entry)
    /\ Finish(p, [op |-> "entry", uid |-> req[p].uid, status |-> 200,
                  created |-> TRUE, entry |-> new_entry])
    /\ UNCHANGED <<analysis_stores, users, codes, env, now, advances, budget>>

----------------------------------------------------------------------------
(* PUT /daily-entries/{entry_id}/update *)

\* update.dict(exclude_unset=True): the fields a client supplied
UpdateInputs ==
    {[checklist |-> DoneChecklist],
     [face_photo_base64 |-> Photo],
     [products_photos |-> <<Photo>>],
     [face_photo_base64 |-> Photo, checklist |-> DoneChecklist]}

\* if update.face_photo_base64
SentFacePhoto(upd) ==
    /\ "face_photo_base64" \in DOMAIN upd
    /\ upd.face_photo_base64 \notin {None, ""}

\* find_one of the entry; a face photo is sent to the model first
UpdateDailyEntryFind(p, eid, upd) ==
    /\ CanStart(p)
    /\ budget' = budget - 1
    /\ IF FindEntry(eid) = 0
       THEN Finish(p, [op |-> "update", eid |-> eid, status |-> 404])
       ELSE Goto(p, [pc |-> IF SentFacePhoto(upd)
                            THEN "upd_ai" ELSE "upd_write",
                     op |-> "update", eid |-> eid, update_data |-> upd])
    /\ UNCHANGED <<analysis_stores, entries, users, codes, env, now, advances>>

\* chat.send_message of the face photo answers, or raises (an error or a
\* timeout) and the fallback text takes the answer's place
UpdateDailyEntryAI(p, ok) ==
    /\ req[p].pc = "upd_ai"
    /\ Goto(p, [pc |-> "upd_write", op |-> "update", eid |-> req[p].eid,
                update_data |->
                    [face_analysis |-> IF ok THEN Analysis ELSE Fallback]
                        @@ req[p].update_data])
    /\ UNCHANGED <<analysis_stores, entries, users, codes, env, now, advances,
                   budget>>

\* update_one with the supplied fields.  The find_one that follows only
\* fills the response.
UpdateDailyEntryWrite(p) ==
    /\ req[p].pc = "upd_write"
    /\ entries' = UpdateEntryAt(FindEntry(req[p].eid), req[p].update_data)
    /\ Finish(p, [op |-> "update", eid |-> req[p].eid, status |-> 200,
                  update_data |-> req[p].update_data])
    /\ UNCHANGED <<analysis_stores, users, codes, env, now, advances, budget>>

----------------------------------------------------------------------------
(* POST /daily-entries/{entry_id}/analyze-product *)

\* find_one of the entry, whose two lists the handler keeps
AnalyzeProductFind(p, eid) ==
    /\ CanStart(p)
    /\ budget' = budget - 1
    /\ IF FindEntry(eid) = 0
       THEN Finish(p, [op |-> "product", eid |-> eid, status |-> 404])
       ELSE Goto(p, [pc |-> "prod_ai", op |-> "product", eid |-> eid,
                     products_photos |->
                         entries[FindEntry(eid)].products_photos,
                     products_analysis |->
                         entries[FindEntry(eid)].products_analysis])
    /\ UNCHANGED <<analysis_stores, entries, users, codes, env, now, advances>>

\* chat.send_message of the product photo answers, or raises (an error or
\* a timeout) into the handler's except clause
AnalyzeProductAI(p, ok) ==
    /\ req[p].pc = "prod_ai"
    /\ IF ok
       THEN Goto(p, [pc |-> "prod_write", op |-> "product",
                     eid |-> req[p].eid,
                     products_photos |->
                         Append(req[p].products_photos, Photo),
                     products_analysis |->
                         Append(req[p].products_analysis, Analysis)])
       ELSE Finish(p, [op |-> "product", eid |-> req[p].eid, status |-> 500,
                       body |-> "error", at |-> "prod_ai"])
    /\ UNCHANGED <<analysis_stores, entries, users, codes, env, now, advances,
                   budget>>

\* update_one with the two lists, each one item longer
AnalyzeProductWrite(p) ==
    /\ req[p].pc = "prod_write"
    /\ entries' = UpdateEntryAt(FindEntry(req[p].eid),
                                [products_photos |-> req[p].products_photos,
                                 products_analysis |->
                                     req[p].products_analysis])
    /\ Finish(p, [op |-> "product", eid |-> req[p].eid, status |-> 200,
                  analysis |-> Analysis])
    /\ UNCHANGED <<analysis_stores, users, codes, env, now, advances, budget>>

----------------------------------------------------------------------------
(* POST /analysis/facial *)

\* the request the handler goes on with after the user's lookup; the user's
\* flags and effective expiry as the lookup read them are kept with it
FacialRequest(uid, u, t) ==
    [pc |-> "fa_ai", op |-> "facial", uid |-> uid,
     is_premium |-> u.is_premium, is_subscriber |-> u.is_subscriber,
     expires_at |-> IF u.premium_code_expires_at # NoTime
                    THEN u.premium_code_expires_at
                    ELSE u.trial_ends_at,
     t |-> t]

\* FacialFind without the test of the two flags
FacialFind_NoGate(p, uid) ==
    /\ CanStart(p)
    /\ budget' = budget - 1
    /\ IF FindById(uid) = 0
       THEN Finish(p, [op |-> "facial", uid |-> uid, status |-> 404])
       ELSE Goto(p, FacialRequest(uid, users[FindById(uid)], now))
    /\ UNCHANGED <<analysis_stores, entries, users, codes, env, now, advances>>

\* find_one of the user, 404 without it, 403 without one of the two flags
FacialFind(p, uid) ==
    /\ CanStart(p)
    /\ budget' = budget - 1
    /\ IF FindById(uid) = 0
       THEN Finish(p, [op |-> "facial", uid |-> uid, status |-> 404])
       ELSE LET u == users[FindById(uid)] IN
            IF ~u.is_premium /\ ~u.is_subscriber
            THEN Finish(p, [op |-> "facial", uid |-> uid, status |-> 403])
            ELSE Goto(p, FacialRequest(uid, u, now))
    /\ UNCHANGED <<analysis_stores, entries, users, codes, env, now, advances>>

\* analyze_face_with_ai: the model answers, or its failure is raised as 500
FacialAI(p, ok) ==
    /\ req[p].pc = "fa_ai"
    /\ IF ok
       THEN Goto(p, [req[p] EXCEPT !.pc = "fa_insert"])
       ELSE Finish(p, [op |-> "facial", uid |-> req[p].uid, status |-> 500,
                       body |-> "error", at |-> "fa_ai"])
    /\ UNCHANGED <<analysis_stores, entries, users, codes, env, now, advances,
                   budget>>

\* insert_one of the FacialAnalysis
FacialInsertAnalysis(p) ==
    /\ req[p].pc = "fa_insert"
    /\ facial_analyses' =
          Append(facial_analyses, [id |-> Len(facial_analyses) + 1,
                                   user_id |-> req[p].uid])
    /\ Goto(p, [req[p] EXCEPT !.pc = "fa_recommend"] @@
               [analysis_id |-> Len(facial_analyses) + 1])
    /\ UNCHANGED <<quiz_results, product_recommendations, entries, users,
                   codes, env, now, advances, budget>>

\* insert_one of the ProductRecommendation, and the response
FacialInsertRecommendation(p) ==
    /\ req[p].pc = "fa_recommend"
    /\ product_recommendations' =
          Append(product_recommendations,
                 [id |-> Len(product_recommendations) + 1,
                  user_id |-> req[p].uid,
                  analysis_id |-> req[p].analysis_id])
    /\ Finish(p, [op |-> "facial", uid |-> req[p].uid, status |-> 200,
                  analysis_id |-> req[p].analysis_id])
    /\ UNCHANGED <<quiz_results, facial_analyses, entries, users, codes, env,
                   now, advances, budget>>

----------------------------------------------------------------------------
(* GET /daily-entries/{user_id}/calendar-status *)

\* DayStatus with the default trial's last day included
DayStatus_DefaultInclusive(u, check_date) ==
    LET activation_date == Midnight(u.premium_activated_at) IN
    IF u.is_subscriber
    THEN "liberado"
    ELSE IF u.trial_ends_at # NoTime
    THEN IF /\ check_date <= Midnight(u.trial_ends_at)
            /\ check_date >= activation_date
         THEN "liberado"
         ELSE "bloqueado"
    ELSE IF /\ check_date >= activation_date
            /\ check_date <= activation_date + Days(TrialDays)
         THEN "liberado"
         ELSE "bloqueado"

\* the status of the day check_date for a user who has an activation date
DayStatus(u, check_date) ==
    LET activation_date == Midnight(u.premium_activated_at) IN
    IF u.is_subscriber
    THEN "liberado"
    ELSE IF u.trial_ends_at # NoTime
    THEN IF /\ check_date <= Midnight(u.trial_ends_at)
            /\ check_date >= activation_date
         THEN "liberado"
         ELSE "bloqueado"
    ELSE IF /\ check_date >= activation_date
            /\ check_date < activation_date + Days(TrialDays)
         THEN "liberado"
         ELSE "bloqueado"

\* strftime("%Y-%m-%d"): the day a time falls on
DateKey(t) == t \div TicksPerDay

\* entries_dict[date_key] of the user's entries: of several entries of one
\* day the last one found stays in the dict (0: the day has no key)
EntryOfDay(uid, key) ==
    LET found == {k \in 1..Len(entries) :
                     /\ entries[k].user_id = uid
                     /\ DateKey(entries[k].date) = key}
    IN  IF found = {} THEN 0
        ELSE CHOOSE k \in found : \A j \in found : j <= k

\* bool(face_photo_base64) and any(item["completed"]) of an entry
HasPhoto(e) == e.face_photo_base64 \notin {None, ""}
HasChecklist(e) == \E k \in 1..Len(e.checklist) : e.checklist[k]

\* calendar_status[date_str] of an activated user
DayRecord(u, check_date) ==
    LET k == EntryOfDay(u.id, DateKey(check_date)) IN
    [status |-> DayStatus(u, check_date),
     entryExists |-> k # 0,
     isComplete |-> k # 0 /\ HasPhoto(entries[k]) /\ HasChecklist(entries[k]),
     hasPhoto |-> k # 0 /\ HasPhoto(entries[k]),
     hasChecklist |-> k # 0 /\ HasChecklist(entries[k])]

\* BlockedDay with the day unlocked
BlockedDay_Unlocked ==
    [status |-> "liberado", entryExists |-> FALSE, isComplete |-> FALSE,
     hasPhoto |-> FALSE, hasChecklist |-> FALSE]

\* calendar_status[date_str] of a user without an activation date
BlockedDay ==
    [status |-> "bloqueado", entryExists |-> FALSE, isComplete |-> FALSE,
     hasPhoto |-> FALSE, hasChecklist |-> FALSE]

\* calendar_status of user document u with today's midnight at today: the
\* record of each day today + i, keyed by i
CalendarStatus(u, today) ==
    IF u.premium_activated_at # NoTime
    THEN [i \in (0 - WindowBack)..(DaysToCheck - 1) |->
             DayRecord(u, today + Days(i))]
    ELSE [i \in (0 - WindowBack)..(DaysNotActivated - 1) |-> BlockedDay]

\* the response of get_calendar_status for user document u
CalendarResponse(uid, u, t) ==
    [op |-> "calendar", uid |-> uid, status |-> 200, user |-> u, t |-> t,
     is_subscriber |-> u.is_subscriber,
     calendar_status |-> CalendarStatus(u, Midnight(t))]

\* find_one of the user; a user without an activation date is answered at
\* once, for the others the entries are fetched
GetCalendarStatus(p, uid) ==
    /\ CanStart(p)
    /\ budget' = budget - 1
    /\ IF FindById(uid) = 0
       THEN Finish(p, [op |-> "calendar", uid |-> uid, status |-> 404])
       ELSE IF users[FindById(uid)].premium_activated_at = NoTime
       THEN Finish(p, CalendarResponse(uid, users[FindById(uid)], now))
       ELSE Goto(p, [pc |-> "cal_entries", op |-> "calendar", uid |-> uid,
                     user |-> users[FindById(uid)], t |-> now])
    /\ UNCHANGED <<analysis_stores, entries, users, codes, env, now, advances>>

\* find of the user's entries, then the record of each day of the window
CalendarEntries(p) ==
    /\ req[p].pc = "cal_entries"
    /\ Finish(p, CalendarResponse(req[p].uid, req[p].user, req[p].t))
    /\ UNCHANGED <<analysis_stores, entries, users, codes, env, now, advances,
                   budget>>

----------------------------------------------------------------------------
(* The store fails, the clock advances *)

\* the request of slot p awaits the language model, not the store
AwaitsModel(p) == req[p].pc \in {"upd_ai", "prod_ai", "fa_ai"}

\* StoreFails answering 500 for every handler
StoreFails_Always500(p) ==
    /\ InFlight(p)
    /\ ~AwaitsModel(p)
    /\ Finish(p, [op |-> req[p].op, status |-> 500,
                  body |-> "error", at |-> req[p].pc])
    /\ UNCHANGED <<analysis_stores, entries, users, codes, env, now, advances,
                   budget>>

\* the store operation a request in flight awaits raises: the handler's
\* except clause answers 500; the webhook's answers 200 with the error
StoreFails(p) ==
    /\ InFlight(p)
    /\ ~AwaitsModel(p)
    /\ Finish(p, [op |-> req[p].op,
                  status |-> IF req[p].op = "webhook" THEN 200 ELSE 500,
                  body |-> "error", at |-> req[p].pc])
    /\ UNCHANGED <<analysis_stores, entries, users, codes, env, now, advances,
                   budget>>

\* time passes
Advance(d) ==
    /\ advances < MaxAdvances
    /\ now' = now + d
    /\ advances' = advances + 1
    /\ UNCHANGED <<analysis_stores, entries, users, codes, env, budget, req, res>>

----------------------------------------------------------------------------
(* The system *)

\* the stores a behaviour starts from: empty, or holding what register_user
\* and generate_premium_code leave behind (both are also actions)
SeedUsers == {<< >>, <<NewUser(1, "a@x.com")>>}
SeedCodes == {<< >>, <<NewCode(CodeStr(1), 0)>>}

\* no quiz was taken and no face analysed yet
NoAnalyses ==
    /\ quiz_results = << >>
    /\ facial_analyses = << >>
    /\ product_recommendations = << >>

\* the environment of a configured deployment
Configured == [admin_password |-> "secret", mp_token |-> TRUE]

InitStore ==
    /\ users \in SeedUsers
    /\ codes \in SeedCodes
    /\ entries = << >>
    /\ env = Configured
    /\ now = 0
    /\ advances = 0
    /\ req = [p \in Procs |-> Idle]
    /\ res = [p \in Procs |-> NoResp]
    /\ NoAnalyses

\* the steps of the request of slot p
Step(p) ==
    \/ \E e \in Emails : RegisterFind(p, e)
    \/ RegisterInsert(p)
    \/ \E e \in Emails \cup {""}, n \in BOOLEAN : AutoFind(p, e, n)
    \/ AutoWrite(p)
    \/ \E u \in 1..MaxUsers, c \in RawCodes : RedeemFindUser(p, u, c)
    \/ RedeemFindCode(p)
    \/ RedeemUpdateUser(p)
    \/ RedeemUpdateCode(p)
    \/ \E e \in Emails \cup {""}, n \in BOOLEAN : GenActFind(p, e, n)
    \/ GenActInsertUser(p)
    \/ GenActInsertCode(p)
    \/ GenActUpdateUser(p)
    \/ \E pw \in Passwords : AdminGenerate(p, pw)
    \/ \E u \in 1..MaxUsers : CheckFind(p, u)
    \/ CheckWrite(p)
    \/ \E u \in 1..MaxUsers : ActivateSubscription(p, u)
    \/ \E ev \in WebhookEvents : WebhookReceive(p, ev)
    \/ WebhookRaises(p)
    \/ WebhookFind(p)
    \/ WebhookUpdate(p)
    \/ \E e \in Emails \cup {""}, c \in BOOLEAN : ValidateFind(p, e, c)
    \/ ValidateUpdate(p)
    \/ \E u \in 1..MaxUsers : GetCalendarStatus(p, u)
    \/ CalendarEntries(p)
    \/ StoreFails(p)

\* requests interleave at their awaits
Init == InitStore /\ budget = MaxReqs
Next == (\E p \in Procs : Step(p)) \/ (\E d \in Jumps : Advance(d))
Spec == Init /\ [][Next]_vars

\* one request at a time
InitSeq == InitStore /\ budget = MaxSeqReqs
NextSeq == Step("r1") \/ (\E d \in Jumps : Advance(d))
SpecSeq == InitSeq /\ [][NextSeq]_vars

\* The calendar alone: get_calendar_status applied to one stored user whose
\* activation, trial expiry and subscriber flag are drawn, documents of
\* earlier versions (an activation without a trial expiry) included
CalActivations == {NoTime} \cup 0..MaxCalTick
CalTrialSpans == {1, Days(TrialDays), Days(TrialDays) + 1}
CalNows == 0..MaxCalTick \cup {Days(5) + 1, Days(WindowBack + 2)}
CalUser(a, span, s) ==
    SetFields(NewUser(1, "a@x.com"),
              [is_premium |-> a # NoTime, is_subscriber |-> s,
               premium_activated_at |-> a,
               trial_ends_at |-> IF a = NoTime \/ span = NoTime
                                 THEN NoTime ELSE a + span])
InitCal ==
    /\ \E a \in CalActivations, span \in CalTrialSpans \cup {NoTime},
          s \in BOOLEAN : users = <<CalUser(a, span, s)>>
    /\ codes = << >>
    /\ entries = << >>
    /\ env = Configured
    /\ now \in CalNows
    /\ advances = 0
    /\ budget = 1
    /\ req = [p \in Procs |-> Idle]
    /\ res = [p \in Procs |-> NoResp]
    /\ NoAnalyses
NextCal ==
    \/ \E u \in 1..MaxUsers : GetCalendarStatus("r1", u)
    \/ CalendarEntries("r1")
SpecCal == InitCal /\ [][NextCal]_vars

\* The daily entries: their three handlers and the calendar, over a stored
\* user who is activated or not and an entry store that is empty or holds
\* what create_daily_entry leaves behind
SeedEntryUsers ==
    {<<NewUser(1, "a@x.com")>>,
     <<SetFields(NewUser(1, "a@x.com"), AutoGrant(0))>>}
SeedEntries == {<< >>, <<NewEntry(1, 1, 0)>>}
InitEntries ==
    /\ users \in SeedEntryUsers
    /\ codes = << >>
    /\ entries \in SeedEntries
    /\ env = Configured
    /\ now = 0
    /\ advances = 0
    /\ budget = MaxEntryReqs
    /\ req = [p \in Procs |-> Idle]
    /\ res = [p \in Procs |-> NoResp]
    /\ NoAnalyses
EntryStep(p) ==
    \/ \E u \in 1..MaxUsers, d \in EntryDates : CreateDailyEntryFind(p, u, d)
    \/ CreateDailyEntryInsert(p)
    \/ \E e \in 1..MaxEntries, upd \in UpdateInputs :
          UpdateDailyEntryFind(p, e, upd)
    \/ \E ok \in BOOLEAN : UpdateDailyEntryAI(p, ok)
    \/ UpdateDailyEntryWrite(p)
    \/ \E e \in 1..MaxEntries : AnalyzeProductFind(p, e)
    \/ \E ok \in BOOLEAN : AnalyzeProductAI(p, ok)
    \/ AnalyzeProductWrite(p)
    \/ \E u \in 1..MaxUsers : GetCalendarStatus(p, u)
    \/ CalendarEntries(p)
    \/ StoreFails(p)
NextEntries == (\E p \in Procs : EntryStep(p)) \/ (\E d \in Jumps : Advance(d))
SpecEntries == InitEntries /\ [][NextEntries]_vars

\* The payments: the webhook and the direct validation, next to
\* registrations, with the gateway's token set or not
HookEnvs == {Configured, [admin_password |-> "secret", mp_token |-> FALSE]}
InitHook ==
    /\ users \in SeedUsers
    /\ codes = << >>
    /\ entries = << >>
    /\ env \in HookEnvs
    /\ now = 0
    /\ advances = 0
    /\ budget = MaxHookReqs
    /\ req = [p \in Procs |-> Idle]
    /\ res = [p \in Procs |-> NoResp]
    /\ NoAnalyses
HookStep(p) ==
    \/ \E ev \in WebhookEvents : WebhookReceive(p, ev)
    \/ WebhookRaises(p)
    \/ WebhookFind(p)
    \/ WebhookUpdate(p)
    \/ \E e \in Emails \cup {""}, c \in BOOLEAN : ValidateFind(p, e, c)
    \/ ValidateUpdate(p)
    \/ \E e \in Emails : RegisterFind(p, e)
    \/ RegisterInsert(p)
    \/ StoreFails(p)
NextHook == (\E p \in Procs : HookStep(p)) \/ (\E d \in Jumps : Advance(d))
SpecHook == InitHook /\ [][NextHook]_vars

\* The quiz alone: one submission of a list of answers
InitQuiz ==
    /\ users = << >>
    /\ codes = << >>
    /\ entries = << >>
    /\ env = Configured
    /\ now = 0
    /\ advances = 0
    /\ budget = 1
    /\ req = [p \in Procs |-> Idle]
    /\ res = [p \in Procs |-> NoResp]
    /\ NoAnalyses
NextQuiz ==
    /\ CanStart("r1")
    /\ \E answers \in QuizInputs : SubmitQuiz("r1", answers)
SpecQuiz == InitQuiz /\ [][NextQuiz]_vars

\* The facial analysis next to the premium status check and the
\* subscription, for a user with and without premium
InitFacial ==
    /\ users \in SeedEntryUsers
    /\ codes = << >>
    /\ entries = << >>
    /\ env = Configured
    /\ now = 0
    /\ advances = 0
    /\ budget = MaxFacialReqs
    /\ req = [p \in Procs |-> Idle]
    /\ res = [p \in Procs |-> NoResp]
    /\ NoAnalyses
FacialStep(p) ==
    \/ \E u \in 1..MaxUsers : FacialFind(p, u)
    \/ \E ok \in BOOLEAN : FacialAI(p, ok)
    \/ FacialInsertAnalysis(p)
    \/ FacialInsertRecommendation(p)
    \/ \E u \in 1..MaxUsers : CheckFind(p, u)
    \/ CheckWrite(p)
    \/ \E u \in 1..MaxUsers : ActivateSubscription(p, u)
    \/ StoreFails(p)
NextFacial == (\E p \in Procs : FacialStep(p)) \/ (\E d \in Jumps : Advance(d))
SpecFacial == InitFacial /\ [][NextFacial]_vars

\* The admin's code generation next to redemptions, with the admin
\* password set in the environment or not
AdminEnvs == {Configured, [admin_password |-> None, mp_token |-> TRUE]}
InitAdmin ==
    /\ users \in SeedUsers
    /\ codes = << >>
    /\ entries = << >>
    /\ env \in AdminEnvs
    /\ now = 0
    /\ advances = 0
    /\ budget = MaxAdminReqs
    /\ req = [p \in Procs |-> Idle]
    /\ res = [p \in Procs |-> NoResp]
    /\ NoAnalyses
AdminStep(p) ==
    \/ \E pw \in Passwords : AdminGenerate(p, pw)
    \/ \E u \in 1..MaxUsers, c \in RawCodes : RedeemFindUser(p, u, c)
    \/ RedeemFindCode(p)
    \/ RedeemUpdateUser(p)
    \/ RedeemUpdateCode(p)
    \/ StoreFails(p)
NextAdmin == (\E p \in Procs : AdminStep(p)) \/ (\E d \in Jumps : Advance(d))
SpecAdmin == InitAdmin /\ [][NextAdmin]_vars

\* The status check next to the automatic activation, for a user whose
\* automatic activation was made at the start
InitRace ==
    /\ users = <<SetFields(NewUser(1, "a@x.com"), AutoGrant(0))>>
    /\ codes = << >>
    /\ entries = << >>
    /\ env = Configured
    /\ now = 0
    /\ advances = 0
    /\ budget = MaxRaceReqs
    /\ req = [p \in Procs |-> Idle]
    /\ res = [p \in Procs |-> NoResp]
    /\ NoAnalyses
RaceStep(p) ==
    \/ \E u \in 1..MaxUsers : CheckFind(p, u)
    \/ CheckWrite(p)
    \/ \E e \in Emails \cup {""}, n \in BOOLEAN : AutoFind(p, e, n)
    \/ AutoWrite(p)
    \/ StoreFails(p)
NextRace == (\E p \in Procs : RaceStep(p)) \/ (\E d \in Jumps : Advance(d))
SpecRace == InitRace /\ [][NextRace]_vars

----------------------------------------------------------------------------
(* Shorthands of the properties *)

UserIdx == 1..Len(users)
CodeIdx == 1..Len(codes)

\* slot p holds the response of a request of handler o
Answered(p, o) == res[p].op = o

\* slot p starts a request in this step
Starts(p) == CanStart(p) /\ budget' = budget - 1

----------------------------------------------------------------------------
(* C1: of the redeemCode requests for one code at most one succeeds, also   *)
(* when two of them run concurrently: no two slots hold a successful        *)
(* response for the same code.                                              *)
C1_OneRedemptionPerCode ==
    \A p, q \in Procs :
        (/\ p # q
         /\ Answered(p, "redeem") /\ res[p].status = 200
         /\ Answered(q, "redeem") /\ res[q].status = 200)
        => res[p].code # res[q].code

(* C2: the two writes of redeemCode are one transaction: no user carries a  *)
(* code as redeemed (premium_code) while that code is still unused in the   *)
(* registry, unless a redeemCode request that is about to mark it used is   *)
(* in flight.  (redeemCode writes the user first, so the opposite partial   *)
(* state, code used and user not upgraded, would show the same way.)        *)
C2_RedeemIsAtomic ==
    \A i \in UserIdx, k \in CodeIdx :
        (users[i].premium_code = codes[k].code /\ ~codes[k].used)
        => \E p \in Procs :
              /\ req[p].pc = "redeem_code"
              /\ req[p].uid = users[i].id
              /\ req[p].code = codes[k].code

(* C4: the user store never holds two records with one email, under any     *)
(* interleaving of the requests that create users.                          *)
C4_UniqueEmail ==
    \A i, j \in UserIdx : i # j => users[i].email # users[j].email

----------------------------------------------------------------------------
(* More shorthands *)

\* slot p starts a request of handler o in this step
StartsOp(p, o) ==
    /\ Starts(p)
    /\ IF req'[p].pc = "idle" THEN res'[p].op = o ELSE req'[p].op = o

\* the inputs of the request slot p starts in this step
Input(p) == IF req'[p].pc = "idle" THEN res'[p] ELSE req'[p]

\* the request of slot p takes a step that is no failure of the store
Proceeds(p) ==
    /\ req'[p] # req[p]
    /\ "at" \notin DOMAIN res'[p]

----------------------------------------------------------------------------
(* C3, as claimed: redeemCode fails with NotFound (404) when the user is    *)
(* absent or the code is absent, with Conflict (400, already used) when the *)
(* code is used, and changes neither the users nor the codes then.          *)
C3_AbsentIsNotFound ==
    [][\A p \in Procs :
        /\ (StartsOp(p, "redeem") /\ FindById(Input(p).uid) = 0)
           => (/\ req'[p].pc = "idle" /\ res'[p].status = 404
               /\ UNCHANGED <<users, codes>>)
        /\ ( /\ req[p].pc = "redeem_find_code" /\ Proceeds(p)
             /\ FindCode(req[p].code) = 0 )
           => (/\ req'[p].pc = "idle" /\ res'[p].status = 404
               /\ UNCHANGED <<users, codes>>)
        /\ ( /\ req[p].pc = "redeem_find_code" /\ Proceeds(p)
             /\ FindCode(req[p].code) # 0
             /\ codes[FindCode(req[p].code)].used )
           => (/\ req'[p].pc = "idle" /\ res'[p].status = 400
               /\ res'[p].detail = "code_used"
               /\ UNCHANGED <<users, codes>>)
      ]_vars

(* C3, amended: redeemCode with a non-empty code fails with NotFound (404)  *)
(* when the user is absent; for an existing user it fails with 400 (invalid *)
(* code) when the code is absent from the registry and with 400 (already    *)
(* used) when the code's used flag is set; each of these failures changes   *)
(* neither the users nor the codes.                                         *)
C3_RefusedRedeem ==
    [][\A p \in Procs :
        /\ ( /\ StartsOp(p, "redeem") /\ Input(p).code # NoCode
             /\ FindById(Input(p).uid) = 0 )
           => (/\ req'[p].pc = "idle" /\ res'[p].status = 404
               /\ UNCHANGED <<users, codes>>)
        /\ ( /\ req[p].pc = "redeem_find_code" /\ Proceeds(p)
             /\ FindCode(req[p].code) = 0 )
           => (/\ req'[p].pc = "idle" /\ res'[p].status = 400
               /\ res'[p].detail = "invalid_code"
               /\ UNCHANGED <<users, codes>>)
        /\ ( /\ req[p].pc = "redeem_find_code" /\ Proceeds(p)
             /\ FindCode(req[p].code) # 0
             /\ codes[FindCode(req[p].code)].used )
           => (/\ req'[p].pc = "idle" /\ res'[p].status = 400
               /\ res'[p].detail = "code_used"
               /\ UNCHANGED <<users, codes>>)
      ]_vars

\* a second user was refused a code that another user had redeemed, and is
\* not premium
C3_Witness ==
    \E p \in Procs :
        /\ Answered(p, "redeem") /\ res[p].status = 400
        /\ res[p].detail = "code_used"
        /\ FindCode(res[p].code) # 0
        /\ codes[FindCode(res[p].code)].used_by \notin {NoUser, res[p].uid}
        /\ FindById(res[p].uid) # 0
        /\ ~users[FindById(res[p].uid)].is_premium

----------------------------------------------------------------------------
(* C5: after an activatePremiumAuto call that follows another request (one  *)
(* request at a time) there is exactly one user with the call's email, that *)
(* user is premium, its activation timestamp is the call's now and its      *)
(* expiry is the call's now + 30 days.                                      *)
C5_AutoTwice ==
    \A p \in Procs :
        (Answered(p, "auto") /\ res[p].status = 200)
        => LET same == {i \in UserIdx : users[i].email = res[p].email} IN
           /\ Cardinality(same) = 1
           /\ \A i \in same :
                 /\ users[i].is_premium
                 /\ users[i].premium_activated_at = res[p].t
                 /\ users[i].trial_ends_at = res[p].t + Days(PremiumDays)
           /\ res[p].t <= now

\* the second request of a behaviour was an activatePremiumAuto that found
\* its user and granted at a later time than the first request ran
C5_Witness ==
    \E p \in Procs :
        /\ Answered(p, "auto") /\ res[p].status = 200
        /\ res[p].existed
        /\ res[p].t > 0
        /\ budget = MaxSeqReqs - 2
        /\ Len(users) = 1

----------------------------------------------------------------------------
(* C6: a second delivery of an approved payment (the payment id the user    *)
(* already holds as last_payment_id, the same email) leaves the user's      *)
(* activation timestamp and expiry as the first delivery set them.          *)
C6_RedeliveryGrantsOnce ==
    [][\A p \in Procs :
        ( /\ req[p].pc = "wh_update" /\ Proceeds(p)
          /\ FindByEmail(req[p].email) # 0
          /\ users[FindByEmail(req[p].email)].last_payment_id = req[p].pid )
        => LET i == FindByEmail(req[p].email) IN
           /\ users'[i].premium_activated_at = users[i].premium_activated_at
           /\ users'[i].trial_ends_at = users[i].trial_ends_at
      ]_vars

----------------------------------------------------------------------------
(* C7: checkStatus of a premium user whose effective expiry is earlier than *)
(* now goes on to its write, and the write answers status=expired with      *)
(* is_premium=false and sets is_premium=false in the user's record,         *)
(* changing no other field and no other record.                             *)
C7_ExpiredIsPersisted ==
    [][\A p \in Procs :
        /\ ( /\ StartsOp(p, "check") /\ FindById(Input(p).uid) # 0
             /\ users[FindById(Input(p).uid)].is_premium
             /\ ExpiresAt(users[FindById(Input(p).uid)]) # NoTime
             /\ ExpiresAt(users[FindById(Input(p).uid)]) < now )
           => req'[p].pc = "check_write"
        /\ (req[p].pc = "check_write" /\ Proceeds(p))
           => LET i == FindById(req[p].uid) IN
              /\ req'[p].pc = "idle"
              /\ res'[p].op = "check" /\ res'[p].status = 200
              /\ res'[p].body = "expired" /\ res'[p].is_premium = FALSE
              /\ users' = [users EXCEPT ![i].is_premium = FALSE]
              /\ ~users'[i].is_premium
              /\ codes' = codes
      ]_vars

\* a checkStatus answered expired and the user is stored as not premium,
\* with the grant's other fields still in place
C7_Witness ==
    \E p \in Procs :
        /\ Answered(p, "check") /\ res[p].status = 200
        /\ res[p].body = "expired"
        /\ ~users[FindById(res[p].uid)].is_premium
        /\ users[FindById(res[p].uid)].trial_ends_at # NoTime
        /\ users[FindById(res[p].uid)].trial_ends_at < now

----------------------------------------------------------------------------
(* C8: checkStatus of an absent user fails with 404; of a premium user      *)
(* whose effective expiry is not before now it answers status=active with   *)
(* days_remaining the whole days of (expiry - now), truncated; of a user    *)
(* who is not premium it answers status=no_premium; the store is unchanged  *)
(* in each case.                                                            *)
C8_ActiveDaysRemaining ==
    [][\A p \in Procs :
        StartsOp(p, "check") =>
        LET i == FindById(Input(p).uid) IN
        /\ i = 0
           => (/\ req'[p].pc = "idle" /\ res'[p].status = 404
               /\ UNCHANGED <<users, codes>>)
        /\ ( /\ i # 0 /\ users[i].is_premium
             /\ ExpiresAt(users[i]) # NoTime /\ ExpiresAt(users[i]) >= now )
           => (/\ req'[p].pc = "idle" /\ res'[p].status = 200
               /\ res'[p].body = "active" /\ res'[p].is_premium
               /\ ExpiresAt(users[i]) =
                     IF users[i].premium_code_expires_at # NoTime
                     THEN users[i].premium_code_expires_at
                     ELSE users[i].trial_ends_at
               /\ Days(res'[p].days_remaining) <= ExpiresAt(users[i]) - now
               /\ ExpiresAt(users[i]) - now < Days(res'[p].days_remaining + 1)
               /\ UNCHANGED <<users, codes>>)
        /\ (i # 0 /\ ~users[i].is_premium)
           => (/\ req'[p].pc = "idle" /\ res'[p].status = 200
               /\ res'[p].body = "no_premium" /\ ~res'[p].is_premium
               /\ UNCHANGED <<users, codes>>)
      ]_vars

\* a checkStatus answered active where the time left is no whole number of
\* days
C8_Witness ==
    \E p \in Procs :
        /\ Answered(p, "check") /\ res[p].status = 200
        /\ res[p].body = "active"
        /\ (res[p].expires_at - res[p].t) % TicksPerDay # 0
        /\ res[p].days_remaining > 0

----------------------------------------------------------------------------
(* C9: every user with is_premium=true has an activation timestamp and an   *)
(* expiry timestamp (trial or code-based).                                  *)
C9_PremiumHasDates ==
    \A i \in UserIdx :
        users[i].is_premium
        => /\ users[i].premium_activated_at # NoTime
           /\ \/ users[i].trial_ends_at # NoTime
              \/ users[i].premium_code_expires_at # NoTime

\* a user who was registered without premium is premium by a webhook's grant
C9_Witness ==
    \E i \in UserIdx :
        /\ users[i].is_premium
        /\ users[i].last_payment_id # None
        /\ users[i].premium_code = NoCode

----------------------------------------------------------------------------
(* C10: the calendar of a subscriber reports every day from today-30 to     *)
(* today+60 unlocked, whatever the activation date, also when premium was   *)
(* never activated.                                                         *)
C10_SubscriberAllUnlocked ==
    \A p \in Procs :
        ( /\ Answered(p, "calendar") /\ res[p].status = 200
          /\ res[p].is_subscriber )
        => \A i \in (0 - WindowBack)..DaysToCheck :
              /\ i \in DOMAIN res[p].calendar_status
              /\ res[p].calendar_status[i].status = "liberado"

----------------------------------------------------------------------------
(* Shorthands for the calendar's responses *)

\* slot p holds a calendar of a user
Calendar(p) == Answered(p, "calendar") /\ res[p].status = 200

\* the key in calendar_status of the day that is k days after the user's
\* activation date
KeyOfDay(p, k) ==
    DateKey(res[p].user.premium_activated_at) + k - DateKey(res[p].t)

\* the calendar of slot p is one of a user with an activation date who is no
\* subscriber
TrialCalendar(p) ==
    /\ Calendar(p)
    /\ ~res[p].is_subscriber
    /\ res[p].user.premium_activated_at # NoTime

----------------------------------------------------------------------------
(* C11: in the calendar of a premium user who is no subscriber and has no   *)
(* trial expiry stored, with the activation date as day 0, the days 0 to 6  *)
(* are unlocked and the days 7 and -1 are blocked (for each of these days   *)
(* that the result reports).                                                *)
C11_DefaultTrialWeek ==
    \A p \in Procs :
        (TrialCalendar(p) /\ res[p].user.trial_ends_at = NoTime)
        => \A k \in (0 - 1)..TrialDays :
              KeyOfDay(p, k) \in DOMAIN res[p].calendar_status
              => res[p].calendar_status[KeyOfDay(p, k)].status =
                    IF k \in 0..(TrialDays - 1)
                    THEN "liberado" ELSE "bloqueado"

\* such a calendar that reports all the days -1 to 7, asked on a later day
\* for an activation that was not made at midnight
C11_Witness ==
    \E p \in Procs :
        /\ TrialCalendar(p) /\ res[p].user.trial_ends_at = NoTime
        /\ \A k \in (0 - 1)..TrialDays :
              KeyOfDay(p, k) \in DOMAIN res[p].calendar_status
        /\ res[p].user.premium_activated_at % TicksPerDay # 0
        /\ DateKey(res[p].t) > DateKey(res[p].user.premium_activated_at)
        /\ res[p].calendar_status[KeyOfDay(p, 0)].status = "liberado"
        /\ res[p].calendar_status[KeyOfDay(p, TrialDays)].status = "bloqueado"

----------------------------------------------------------------------------
(* C12, as claimed: in the calendar of a premium user who is no subscriber  *)
(* a day d is unlocked iff activation_date <= d <= trial_end, where         *)
(* trial_end is the stored trial expiry truncated to its day and            *)
(* activation_date + 7 days when no trial expiry is stored.                 *)
C12_UnlockedThroughTrialEnd ==
    \A p \in Procs :
        TrialCalendar(p)
        => LET u == res[p].user
               activation_day == DateKey(u.premium_activated_at)
               trial_end_day == IF u.trial_ends_at # NoTime
                                THEN DateKey(u.trial_ends_at)
                                ELSE activation_day + TrialDays
           IN  \A i \in DOMAIN res[p].calendar_status :
                  LET d == DateKey(res[p].t) + i IN
                  res[p].calendar_status[i].status =
                     IF activation_day <= d /\ d <= trial_end_day
                     THEN "liberado" ELSE "bloqueado"

(* C12, amended: in the calendar of a premium user who is no subscriber a   *)
(* day d is unlocked iff activation_date <= d <= trial_end (both inclusive) *)
(* when a trial expiry is stored, trial_end being that expiry truncated to  *)
(* its day, and iff activation_date <= d < activation_date + 7 days when    *)
(* none is stored; every other day is blocked.                              *)
C12_UnlockedWindow ==
    \A p \in Procs :
        TrialCalendar(p)
        => LET u == res[p].user
               activation_day == DateKey(u.premium_activated_at)
           IN  \A i \in DOMAIN res[p].calendar_status :
                  LET d == DateKey(res[p].t) + i IN
                  res[p].calendar_status[i].status =
                     IF /\ activation_day <= d
                        /\ IF u.trial_ends_at # NoTime
                           THEN d <= DateKey(u.trial_ends_at)
                           ELSE d < activation_day + TrialDays
                     THEN "liberado" ELSE "bloqueado"

\* a calendar of a user whose stored trial expiry is not at midnight: the
\* day of the expiry is unlocked, the day after it and the day before the
\* activation are blocked
C12_Witness ==
    \E p \in Procs :
        /\ TrialCalendar(p)
        /\ res[p].user.trial_ends_at # NoTime
        /\ res[p].user.trial_ends_at % TicksPerDay # 0
        /\ LET last == DateKey(res[p].user.trial_ends_at)
                          - DateKey(res[p].t)
           IN  /\ last \in DOMAIN res[p].calendar_status
               /\ last + 1 \in DOMAIN res[p].calendar_status
               /\ res[p].calendar_status[last].status = "liberado"
               /\ res[p].calendar_status[last + 1].status = "bloqueado"
        /\ KeyOfDay(p, 0 - 1) \in DOMAIN res[p].calendar_status
        /\ res[p].calendar_status[KeyOfDay(p, 0 - 1)].status = "bloqueado"

----------------------------------------------------------------------------
(* C13: the calendar of a user whose premium was never activated (no        *)
(* activation timestamp) reports every day of its window, today - 30 to     *)
(* today + 29, as blocked, whether or not the user is a subscriber.         *)
C13_NeverActivatedBlocked ==
    \A p \in Procs :
        (Calendar(p) /\ res[p].user.premium_activated_at = NoTime)
        => /\ \A i \in DOMAIN res[p].calendar_status :
                 res[p].calendar_status[i].status = "bloqueado"
           /\ \A i \in (0 - WindowBack)..(DaysNotActivated - 1) :
                 i \in DOMAIN res[p].calendar_status

\* a calendar of a user without an activation timestamp
C13_Witness ==
    \E p \in Procs :
        /\ Calendar(p)
        /\ res[p].user.premium_activated_at = NoTime
        /\ ~res[p].user.is_premium
        /\ res[p].calendar_status[0].status = "bloqueado"

----------------------------------------------------------------------------
(* C14: every calendar holds exactly one entry for each day from today - 30 *)
(* to today + 60, 91 days, whatever the user's activation and subscription. *)
C14_WindowOf91Days ==
    \A p \in Procs :
        Calendar(p)
        => /\ DOMAIN res[p].calendar_status = (0 - WindowBack)..DaysToCheck
           /\ Cardinality(DOMAIN res[p].calendar_status) = 91

----------------------------------------------------------------------------
(* C15: in every calendar that is answered, for every day it reports:       *)
(* entryExists is true iff the user has an entry of that day; and, when the *)
(* user has one entry of that day at most, hasPhoto is true iff that entry  *)
(* has a face photo, hasChecklist iff one of its checklist items is         *)
(* completed, and isComplete = hasPhoto AND hasChecklist.  This for every   *)
(* user, activated or not.                                                  *)
C15_FlagsMatchEntries ==
    [][\A p \in Procs :
        ( /\ res'[p] # res[p]
          /\ res'[p].op = "calendar" /\ res'[p].status = 200 )
        => \A i \in DOMAIN res'[p].calendar_status :
              LET day == res'[p].calendar_status[i]
                  of_day == {k \in 1..Len(entries) :
                                /\ entries[k].user_id = res'[p].uid
                                /\ DateKey(entries[k].date)
                                      = DateKey(res'[p].t) + i}
              IN  /\ day.entryExists = (of_day # {})
                  /\ day.isComplete = (day.hasPhoto /\ day.hasChecklist)
                  /\ Cardinality(of_day) <= 1
                     => /\ day.hasPhoto =
                              (\E k \in of_day : HasPhoto(entries[k]))
                        /\ day.hasChecklist =
                              (\E k \in of_day : HasChecklist(entries[k]))
      ]_vars

----------------------------------------------------------------------------
(* C16: the daily entry store never holds two entries of one user for one   *)
(* calendar day, also when createOrGetForDay requests run concurrently.     *)
C16_OneEntryPerDay ==
    \A j, k \in 1..Len(entries) :
        ( /\ j # k
          /\ entries[j].user_id = entries[k].user_id )
        => DateKey(entries[j].date) # DateKey(entries[k].date)

----------------------------------------------------------------------------
(* C17: in every entry the lists products_photos and products_analysis have *)
(* the same length, after any sequence of createOrGetForDay, updateEntry    *)
(* and appendProductAnalysis.                                               *)
C17_ParallelLists ==
    \A k \in 1..Len(entries) :
        Len(entries[k].products_photos) = Len(entries[k].products_analysis)

----------------------------------------------------------------------------
(* C18: when the language model's call ends during updateEntry (with a face *)
(* photo) or during appendProductAnalysis, whether it answered or failed,   *)
(* the operation goes on to its write, and the text it is about to write is *)
(* the model's answer or the fixed fallback text; the failure is never      *)
(* answered to the caller.                                                  *)
C18_ModelFailureAbsorbed ==
    [][\A p \in Procs :
        (AwaitsModel(p) /\ req'[p] # req[p])
        => /\ req'[p].pc \in {"upd_write", "prod_write"}
           /\ req[p].pc = "upd_ai"
              => req'[p].update_data.face_analysis \in {Analysis, Fallback}
           /\ req[p].pc = "prod_ai"
              => req'[p].products_analysis[Len(req'[p].products_analysis)]
                    \in {Analysis, Fallback}
      ]_vars

----------------------------------------------------------------------------
(* C19: every response of the payment webhook is a success (status 200):    *)
(* for every event, with the gateway's token set or absent, when the SDK's  *)
(* lookup raises and when a store operation of the handler raises.          *)
C19_WebhookAnswers200 ==
    \A p \in Procs : Answered(p, "webhook") => res[p].status = 200

\* the webhook answered after the store raised in the middle of the
\* handler, the payer being found already
C19_Witness ==
    \E p \in Procs :
        /\ Answered(p, "webhook") /\ res[p].status = 200
        /\ res[p].body = "error"
        /\ "at" \in DOMAIN res[p]
        /\ res[p].at = "wh_update"

----------------------------------------------------------------------------
(* C20: payment confirmation never creates a user.  The webhook of an       *)
(* approved payment whose email has no user acknowledges with a no-op and   *)
(* leaves the user store unchanged; a confirmed direct validation for an    *)
(* email that has no user fails with 404 and leaves the user store          *)
(* unchanged; no step of either handler changes the number of users.        *)
C20_PaymentCreatesNoUser ==
    [][\A p \in Procs :
        /\ ( /\ req[p].pc = "wh_find" /\ Proceeds(p)
             /\ FindByEmail(req[p].email) = 0 )
           => (/\ req'[p].pc = "idle"
               /\ res'[p].op = "webhook" /\ res'[p].status = 200
               /\ res'[p].body = "no_user"
               /\ users' = users)
        /\ ( /\ StartsOp(p, "validate")
             /\ Input(p).email # "" /\ Input(p).confirmed
             /\ FindByEmail(Input(p).email) = 0 )
           => (/\ req'[p].pc = "idle" /\ res'[p].status = 404
               /\ users' = users)
        /\ ( /\ req'[p] # req[p]
             /\ \/ InFlight(p) /\ req[p].op \in {"webhook", "validate"}
                \/ StartsOp(p, "webhook") \/ StartsOp(p, "validate") )
           => Len(users') = Len(users)
      ]_vars

\* the webhook answered its no-op for an approved payment whose email
\* differs from the stored user's in case only
C20_Witness ==
    \E p \in Procs :
        /\ Answered(p, "webhook") /\ res[p].status = 200
        /\ res[p].body = "no_user"
        /\ FindByEmail(res[p].email) = 0
        /\ FindByEmail(Lower(res[p].email)) # 0

----------------------------------------------------------------------------
(* C21: registerUser with an email that a stored user has returns that user *)
(* and leaves the user store unchanged; with an email no stored user has it *)
(* goes on to its insert, which adds exactly one record, with that email,   *)
(* is_premium=false and no activation and no expiry, and changes no other.  *)
C21_RegisterFrame ==
    [][\A p \in Procs :
        /\ (StartsOp(p, "register") /\ FindByEmail(Input(p).email) # 0)
           => (/\ req'[p].pc = "idle" /\ res'[p].status = 200
               /\ res'[p].user = users[FindByEmail(Input(p).email)]
               /\ users' = users)
        /\ (StartsOp(p, "register") /\ FindByEmail(Input(p).email) = 0)
           => (req'[p].pc = "reg_insert" /\ users' = users)
        /\ (req[p].pc = "reg_insert" /\ Proceeds(p))
           => (/\ req'[p].pc = "idle" /\ res'[p].status = 200
               /\ Len(users') = Len(users) + 1
               /\ \A i \in 1..Len(users) : users'[i] = users[i]
               /\ users'[Len(users')].email = req[p].email
               /\ ~users'[Len(users')].is_premium
               /\ users'[Len(users')].premium_activated_at = NoTime
               /\ users'[Len(users')].trial_ends_at = NoTime
               /\ users'[Len(users')].premium_code_expires_at = NoTime)
      ]_vars

\* a registration was answered with the stored user, who is premium, and
\* the stored user is premium still
C21_Witness ==
    \E p \in Procs :
        /\ Answered(p, "register") /\ res[p].status = 200
        /\ ~res[p].created
        /\ res[p].user.is_premium
        /\ users[FindByEmail(res[p].email)] = res[p].user

----------------------------------------------------------------------------
(* Shorthands for the quiz *)

\* the answers of a submission that say yes to a question with the keyword
Affirmed(answers, kw) ==
    Cardinality({i \in 1..Len(answers) :
                    /\ kw \in answers[i].question.words
                    /\ "sim" \in answers[i].answer.words})

\* the answers that say yes to a question about burning or sensitive skin
AffirmedSensitive(answers) ==
    Cardinality({i \in 1..Len(answers) :
                    /\ answers[i].question.words
                          \cap {"ardencia", "sensivel"} # {}
                    /\ "sim" \in answers[i].answer.words})

SkinTypes == {"Acneica", "Sensivel", "Oleosa", "Seca", "Mista", "Normal"}

----------------------------------------------------------------------------
(* C22: the scorer gives every list of answers one of the six skin types,   *)
(* by the priority order on the four scores (oily: 2 per yes to shine and   *)
(* to oiliness; dry: 2 per yes to dryness; acne: 2 per yes to acne;         *)
(* sensitive: 2 per yes to burning or sensitive, 1 per yes to spots):       *)
(* acne >= 2 Acneica, else sensitive >= 2 Sensivel, else oily >= 3 Oleosa,  *)
(* else dry >= 2 Seca, else oily >= 1 and dry >= 1 Mista, else Normal.  Two *)
(* or more yes answers to acne questions always give Acneica.               *)
C22_QuizPriority ==
    \A p \in Procs :
        Answered(p, "quiz")
        => LET a == res[p].answers
               oily == 2 * Affirmed(a, "brilha") + 2 * Affirmed(a, "oleosidade")
               dry == 2 * Affirmed(a, "ressecamento")
               acne == 2 * Affirmed(a, "acne")
               sensitive == 2 * AffirmedSensitive(a) + Affirmed(a, "manchas")
           IN  /\ res[p].status = 200
               /\ res[p].skin_type \in SkinTypes
               /\ res[p].skin_type =
                     IF acne >= 2 THEN "Acneica"
                     ELSE IF sensitive >= 2 THEN "Sensivel"
                     ELSE IF oily >= 3 THEN "Oleosa"
                     ELSE IF dry >= 2 THEN "Seca"
                     ELSE IF oily >= 1 /\ dry >= 1 THEN "Mista"
                     ELSE "Normal"
               /\ Affirmed(a, "acne") >= 2 => res[p].skin_type = "Acneica"

\* a submission with two yes answers to acne, one of them in capitals, and
\* a yes to sensitive skin was scored Acneica
C22_Witness ==
    \E p \in Procs :
        /\ Answered(p, "quiz")
        /\ Affirmed(res[p].answers, "acne") >= 2
        /\ AffirmedSensitive(res[p].answers) >= 1
        /\ \E i \in 1..Len(res[p].answers) :
              /\ res[p].answers[i].question.caps
              /\ "acne" \in res[p].answers[i].question.words
        /\ res[p].skin_type = "Acneica"

----------------------------------------------------------------------------
(* C30: each of the six skin types is the scorer's result for at least one  *)
(* list of answers: wherever a submission can start, for each type, Mista   *)
(* among them, there is a list of answers that the scorer gives that type.  *)
C30_EveryTypeHasAnswers ==
    \A p \in Procs :
        CanStart(p)
        => \A type \in SkinTypes :
              \E answers \in QuizInputs : AnalyzeQuiz(answers) = type

----------------------------------------------------------------------------
----------------------------------------------------------------------------
(* C29: premium access to the facial analysis ends at expiry: no facial     *)
(* analysis goes on for a user who is no subscriber and whose effective     *)
(* premium expiry is earlier than now, whether or not the status check has  *)
(* been called since.                                                       *)
C29_FacialEndsAtExpiry ==
    [][\A p \in Procs, i \in UserIdx :
          (/\ StartsOp(p, "facial") /\ Input(p).uid = i
           /\ ~users[i].is_subscriber
           /\ ExpiresAt(users[i]) # NoTime
           /\ ExpiresAt(users[i]) < now)
          => req'[p].pc = "idle" /\ res'[p].status # 200
      ]_vars

----------------------------------------------------------------------------
(* C24: the admin's code generation inserts a code only when the password   *)
(* sent equals the configured one: a request with a wrong or a missing      *)
(* password is refused with 403 and leaves the codes as they are, whatever  *)
(* the configuration (an unset admin password included); an accepted        *)
(* request inserts exactly one code, unused and with no redeemer.           *)
C24_AdminNeedsPassword ==
    [][\A p \in Procs :
          StartsOp(p, "admin")
          => LET pw == res'[p].admin_password IN
             /\ (pw = None \/ pw # env.admin_password)
                => res'[p].status = 403 /\ codes' = codes
             /\ res'[p].status = 200
                => /\ Len(codes') = Len(codes) + 1
                   /\ SubSeq(codes', 1, Len(codes)) = codes
                   /\ ~codes'[Len(codes')].used
                   /\ codes'[Len(codes')].used_by = NoUser
      ]_vars

----------------------------------------------------------------------------
(* C25: right after a successful premium grant through any path, the        *)
(* status check of that user answers active and does not flip the user to   *)
(* non-premium, whatever grants came before: a check that starts at the     *)
(* instant of the user's latest activation, the user being premium, answers *)
(* active at once.                                                          *)
C25_ActiveAfterGrant ==
    [][\A p \in Procs, i \in UserIdx :
          (/\ StartsOp(p, "check") /\ Input(p).uid = i
           /\ users[i].is_premium
           /\ users[i].premium_activated_at = now)
          => /\ req'[p].pc = "idle"
             /\ res'[p].status = 200
             /\ res'[p].body = "active"
      ]_vars

----------------------------------------------------------------------------
(* C26: when a status check of a user whose premium has expired and a       *)
(* premium grant for the same user have both completed, the grant's expiry  *)
(* not yet passed, the user is premium with the new expiry, in every        *)
(* interleaving: the check's write of is_premium false, decided on a stale  *)
(* read, never overwrites the newer grant.                                  *)
C26_CheckKeepsNewerGrant ==
    \A p, q \in Procs, i \in UserIdx :
        (/\ Answered(p, "check") /\ "at" \notin DOMAIN res[p]
         /\ res[p].status = 200 /\ res[p].uid = i
         /\ res[p].body = "expired"
         /\ Answered(q, "auto") /\ "at" \notin DOMAIN res[q]
         /\ res[q].status = 200
         /\ Lower(res[q].email) = users[i].email
         /\ res[q].expires_at >= now
         /\ res[q].expires_at > res[p].expired_at)
        => /\ users[i].is_premium
           /\ users[i].trial_ends_at = res[q].expires_at

----------------------------------------------------------------------------
(* C27: a successful premium grant never reduces the access the user holds: *)
(* a step that grants premium to a user holding an unexpired grant leaves   *)
(* the trial expiry no earlier than it was, and no day of the calendar's    *)
(* window that was unlocked for the non-subscriber before the grant is      *)
(* blocked after it.                                                        *)
C27_GrantKeepsAccess ==
    [][\A i \in UserIdx :
          (/\ users'[i] # users[i]
           /\ users'[i].is_premium
           /\ users'[i].premium_activated_at = now
           /\ users[i].is_premium
           /\ users[i].trial_ends_at # NoTime
           /\ users[i].trial_ends_at >= now)
          => /\ users'[i].trial_ends_at >= users[i].trial_ends_at
             /\ ~users[i].is_subscriber
                => \A k \in (0 - WindowBack)..(DaysToCheck - 1) :
                      LET check_date == Midnight(now) + Days(k) IN
                      DayStatus(users[i], check_date) = "liberado"
                      => DayStatus(users'[i], check_date) = "liberado"
      ]_vars

----------------------------------------------------------------------------
(* C28: no product analysis is lost under concurrency: when two product     *)
(* analyses of one entry have both completed successfully, in any           *)
(* interleaving, the entry holds both photos and both commentaries (each    *)
(* list grew by two), each commentary at the index of its photo.            *)
C28_BothProductsKept ==
    \A e \in 1..Len(entries) :
        (\A p \in Procs :
            /\ Answered(p, "product") /\ "at" \notin DOMAIN res[p]
            /\ res[p].status = 200
            /\ res[p].eid = entries[e].id)
        => /\ Len(entries[e].products_photos) >= Cardinality(Procs)
           /\ Len(entries[e].products_analysis)
                 = Len(entries[e].products_photos)

====
